---- MODULE Spec2Model ----
(***************************************************************************)
(* GapBuffer of src/lib.rs: a Vec<u8> holding the live content and a gap,  *)
(* a point, and the gap bounds.  Every method is modelled statement by     *)
(* statement, including the places where it panics, so that a state left   *)
(* behind by a panicking call is the state the code had written so far.    *)
(*                                                                         *)
(* usize values are kept as their two's complement representative: a       *)
(* value that wrapped below zero in a build without overflow checks is a   *)
(* negative integer here, and compares as larger than every non-negative   *)
(* one (ULt).  With overflow checks (the debug and test profile) the       *)
(* subtraction panics instead.                                             *)
(***************************************************************************)
EXTENDS Integers, Sequences, FiniteSets, TLC

INITIAL_GAP_SIZE == 10

\* Bounds of the model.
MaxStr == 2        \* byte length of the strings given to from()
MaxBatch == 2      \* length of the exhaustively enumerated insert_bytes arguments
MaxExtra == 1      \* long insert_bytes arguments exceed INITIAL_GAP_SIZE by up to this
MaxIndex == 3      \* largest index given to set_point
MaxRange == 1      \* largest small bound of a range given to remove_bytes
MaxOps == 3        \* number of method calls in one run
MaxEditOps == 4    \* number of method calls in one run of SpecEdit

\* The bytes callers pass in: 'a', and the two bytes of U+00E9 (0xC3 0xA9).
Byte == {97, 195, 169}

VARIABLES buffer, capacity, point, gap_start, gap_end,
          overflow_checks, panicked, history

vars == <<buffer, capacity, point, gap_start, gap_end,
          overflow_checks, panicked, history>>

----------------------------------------------------------------------------
\* usize arithmetic

\* a < b on usize
ULt(a, b) == IF (a < 0) = (b < 0) THEN a < b ELSE b < 0

ULe(a, b) == a = b \/ ULt(a, b)

Panic == [ok |-> FALSE, v |-> 0]

Ok(x) == [ok |-> TRUE, v |-> x]

\* a - b: "attempt to subtract with overflow" when checked, wraps otherwise
Sub(a, b) == [ok |-> ~(overflow_checks /\ ULt(a, b)), v |-> a - b]

Fail(s) == [s EXCEPT !.ok = FALSE]

----------------------------------------------------------------------------
\* Vec<u8>

\* Vec::drain(start..end).collect(): panics when start > end or end > len
VecDrain(buf, start, end) ==
    IF ULt(end, start) \/ ULt(Len(buf), end)
    THEN [ok |-> FALSE, bytes |-> <<>>, rest |-> buf]
    ELSE [ok |-> TRUE,
          bytes |-> SubSeq(buf, start + 1, end),
          rest |-> SubSeq(buf, 1, start) \o SubSeq(buf, end + 1, Len(buf))]

\* capacity after one more element is pushed into a Vec<u8> of length n
GrowCapacity(cap, n) ==
    IF n < cap THEN cap
    ELSE LET d == 2 * cap
             m == IF d > n + 1 THEN d ELSE n + 1
         IN IF m > 8 THEN m ELSE 8

\* Vec::insert(index, byte) on s.buffer: panics when index > len
VecInsert(s, index, byte) ==
    IF ULt(Len(s.buffer), index) THEN Fail(s)
    ELSE [s EXCEPT !.buffer = SubSeq(s.buffer, 1, index) \o <<byte>>
                                \o SubSeq(s.buffer, index + 1, Len(s.buffer)),
                   !.capacity = GrowCapacity(s.capacity, Len(s.buffer))]

\* s.buffer[index] = byte: panics when index >= len
VecSet(s, index, byte) ==
    IF ~ULt(index, Len(s.buffer)) THEN Fail(s)
    ELSE [s EXCEPT !.buffer[index + 1] = byte]

Zeros(n) == [i \in 1..n |-> 0]

----------------------------------------------------------------------------
\* GapBuffer

new ==
    [buffer |-> Zeros(INITIAL_GAP_SIZE),
     capacity |-> INITIAL_GAP_SIZE,
     point |-> 0,
     gap_start |-> 0,
     gap_end |-> INITIAL_GAP_SIZE,
     ok |-> TRUE]

\* from() with the gap placed before the content instead of after it
from_gap_in_front(content) ==
    [buffer |-> content \o Zeros(INITIAL_GAP_SIZE),
     capacity |-> Len(content) + INITIAL_GAP_SIZE,
     point |-> Len(content),
     gap_start |-> 0,
     gap_end |-> INITIAL_GAP_SIZE,
     ok |-> TRUE]

from(content) ==
    [buffer |-> content \o Zeros(INITIAL_GAP_SIZE),
     capacity |-> Len(content) + INITIAL_GAP_SIZE,
     point |-> Len(content),
     gap_start |-> Len(content),
     gap_end |-> Len(content) + INITIAL_GAP_SIZE,
     ok |-> TRUE]

len(s) ==
    LET gap_length == Sub(s.gap_end, s.gap_start)
    IN IF ~gap_length.ok THEN Panic
       ELSE Sub(Len(s.buffer), gap_length.v)

set_point(s, index) ==
    LET l == len(s)
    IN IF ~l.ok THEN Fail(s)
       ELSE LET m == Sub(l.v, 1)
            IN IF ~m.ok THEN Fail(s)
               ELSE IF ULt(m.v, index) THEN Fail(s)
               ELSE [s EXCEPT !.point = index]

\* convert_user_index_to_gap_index() comparing with <= where the code has <
convert_user_index_up_to_gap_start(s, index) ==
    IF ULe(index, s.gap_start) THEN Ok(index)
    ELSE LET g == Sub(s.gap_end, s.gap_start)
         IN IF ~g.ok THEN Panic ELSE Ok(g.v + index)

convert_user_index_to_gap_index(s, index) ==
    IF ULt(index, s.gap_start) THEN Ok(index)
    ELSE LET g == Sub(s.gap_end, s.gap_start)
         IN IF ~g.ok THEN Panic ELSE Ok(g.v + index)

convert_gap_index_to_user_index(s, index) ==
    IF ULt(index, s.gap_start) THEN Ok(index)
    ELSE LET g == Sub(s.gap_end, s.gap_start)
         IN IF ~g.ok THEN Panic ELSE Sub(index, g.v)

\* the first loop of prepare_gap: each byte goes in at gap_start
RECURSIVE MoveForward(_, _)
MoveForward(s, bytes) ==
    IF bytes = <<>> THEN s
    ELSE LET t == VecInsert(s, s.gap_start, Head(bytes))
         IN IF ~t.ok THEN t
            ELSE MoveForward([t EXCEPT !.gap_start = @ + 1, !.gap_end = @ + 1],
                             Tail(bytes))

\* the second loop of prepare_gap: the bytes go in from index on
RECURSIVE MoveBackward(_, _, _)
MoveBackward(s, bytes, index) ==
    IF bytes = <<>> THEN s
    ELSE LET t == VecInsert(s, index, Head(bytes))
         IN IF ~t.ok THEN t
            ELSE MoveBackward(t, Tail(bytes), index + 1)

\* prepare_gap() without its second branch: a gap after the point stays there
prepare_gap_forward_only(s) ==
    LET target == convert_user_index_to_gap_index(s, s.point)
    IN IF ~target.ok THEN Fail(s)
       ELSE IF ULt(s.gap_start, target.v)
       THEN LET q == Sub(target.v, s.gap_end)
            IN IF ~q.ok THEN Fail(s)
               ELSE LET d == VecDrain(s.buffer, s.gap_end, s.gap_end + q.v)
                    IN IF ~d.ok THEN Fail(s)
                       ELSE MoveForward([s EXCEPT !.buffer = d.rest], d.bytes)
       ELSE s

\* prepare_gap() whose second branch forgets self.gap_end -= quantity
prepare_gap_gap_end_kept(s) ==
    LET target == convert_user_index_to_gap_index(s, s.point)
    IN IF ~target.ok THEN Fail(s)
       ELSE IF ULt(s.gap_start, target.v)
       THEN LET q == Sub(target.v, s.gap_end)
            IN IF ~q.ok THEN Fail(s)
               ELSE LET d == VecDrain(s.buffer, s.gap_end, s.gap_end + q.v)
                    IN IF ~d.ok THEN Fail(s)
                       ELSE MoveForward([s EXCEPT !.buffer = d.rest], d.bytes)
       ELSE IF ULt(target.v, s.gap_start)
       THEN LET q == Sub(s.gap_start, target.v)
                d == VecDrain(s.buffer, target.v, s.gap_start)
            IN IF ~d.ok THEN Fail(s)
               ELSE LET s1 == [s EXCEPT !.buffer = d.rest,
                                        !.gap_start = @ - q.v]
                        ge == Sub(s.gap_end, q.v)
                    IN IF ~ge.ok THEN Fail(s1)
                       ELSE MoveBackward(s1, d.bytes, ge.v)
       ELSE s

prepare_gap(s) ==
    LET target == convert_user_index_to_gap_index(s, s.point)
    IN IF ~target.ok THEN Fail(s)
       ELSE IF ULt(s.gap_start, target.v)
       THEN LET q == Sub(target.v, s.gap_end)
            IN IF ~q.ok THEN Fail(s)
               ELSE LET d == VecDrain(s.buffer, s.gap_end, s.gap_end + q.v)
                    IN IF ~d.ok THEN Fail(s)
                       ELSE MoveForward([s EXCEPT !.buffer = d.rest], d.bytes)
       ELSE IF ULt(target.v, s.gap_start)
       THEN LET q == Sub(s.gap_start, target.v)
                d == VecDrain(s.buffer, target.v, s.gap_start)
            IN IF ~d.ok THEN Fail(s)
               ELSE LET s1 == [s EXCEPT !.buffer = d.rest,
                                        !.gap_start = @ - q.v]
                        ge == Sub(s.gap_end, q.v)
                    IN IF ~ge.ok THEN Fail(s1)
                       ELSE MoveBackward([s1 EXCEPT !.gap_end = ge.v],
                                         d.bytes, ge.v)
       ELSE s

\* insert() that writes at the point without moving the gap there first
insert_without_prepare_gap(s, byte) ==
    VecSet([s EXCEPT !.gap_start = @ + 1], s.point, byte)

insert(s, byte) ==
    LET s1 == prepare_gap(s)
    IN IF ~s1.ok THEN s1
       ELSE VecSet([s1 EXCEPT !.gap_start = @ + 1], s1.point, byte)

RECURSIVE WriteBytes(_, _, _)
WriteBytes(s, bytes, index) ==
    IF bytes = <<>> THEN s
    ELSE LET t == VecSet(s, index, Head(bytes))
         IN IF ~t.ok THEN t
            ELSE WriteBytes([t EXCEPT !.gap_start = @ + 1], Tail(bytes), index + 1)

insert_bytes(s, bytes) ==
    LET s1 == prepare_gap(s)
    IN IF ~s1.ok THEN s1
       ELSE WriteBytes(s1, bytes, s1.point)

remove(s) ==
    LET s1 == prepare_gap(s)
    IN IF ~s1.ok THEN s1
       ELSE LET g == Sub(s1.gap_start, 1)
            IN IF ~g.ok THEN Fail(s1)
               ELSE LET s2 == [s1 EXCEPT !.gap_start = g.v]
                        i == Sub(s2.point, 1)
                    IN IF ~i.ok THEN Fail(s2)
                       ELSE set_point(s2, i.v)

\* remove_bytes(start..end): the state after the call and the bytes returned
remove_bytes(s, start, end) ==
    LET d == VecDrain(s.buffer, start, end)
    IN [st |-> IF d.ok THEN [s EXCEPT !.buffer = d.rest] ELSE Fail(s),
        ret |-> d.bytes]

----------------------------------------------------------------------------
\* Display

IsCont(b) == b >= 128 /\ b <= 191

\* std::str::from_utf8 accepts the byte sequence
RECURSIVE Utf8Valid(_)
Utf8Valid(bs) ==
    IF bs = <<>> THEN TRUE
    ELSE LET b == bs[1]
             n == Len(bs)
         IN IF b < 128 THEN Utf8Valid(Tail(bs))
            ELSE IF b >= 194 /\ b <= 223
            THEN n >= 2 /\ IsCont(bs[2]) /\ Utf8Valid(SubSeq(bs, 3, n))
            ELSE IF b >= 224 /\ b <= 239
            THEN /\ n >= 3
                 /\ IsCont(bs[2]) /\ IsCont(bs[3])
                 /\ (b = 224 => bs[2] >= 160)
                 /\ (b = 237 => bs[2] <= 159)
                 /\ Utf8Valid(SubSeq(bs, 4, n))
            ELSE IF b >= 240 /\ b <= 244
            THEN /\ n >= 4
                 /\ IsCont(bs[2]) /\ IsCont(bs[3]) /\ IsCont(bs[4])
                 /\ (b = 240 => bs[2] >= 144)
                 /\ (b = 244 => bs[2] <= 143)
                 /\ Utf8Valid(SubSeq(bs, 5, n))
            ELSE FALSE

\* str::is_char_boundary
is_char_boundary(bs, index) ==
    IF index = 0 THEN TRUE
    ELSE IF ~ULt(index, Len(bs)) THEN index = Len(bs)
    ELSE ~IsCont(bs[index + 1])

\* to_string(): from_utf8(&buffer).unwrap(), then replace_range(gap, "")
to_string(s) ==
    IF ~Utf8Valid(s.buffer) THEN Panic
    ELSE IF ULt(s.gap_end, s.gap_start) \/ ULt(Len(s.buffer), s.gap_end) THEN Panic
    ELSE IF ~is_char_boundary(s.buffer, s.gap_start) THEN Panic
    ELSE IF ~is_char_boundary(s.buffer, s.gap_end) THEN Panic
    ELSE Ok(SubSeq(s.buffer, 1, s.gap_start)
            \o SubSeq(s.buffer, s.gap_end + 1, Len(s.buffer)))

---------------------------------------------------------------------------------------------------------------------------------------------------
\* The inputs

RECURSIVE SeqsUpTo(_, _)
SeqsUpTo(S, n) ==
    IF n = 0 THEN {<<>>}
    ELSE LET r == SeqsUpTo(S, n - 1)
         IN r \cup {Append(q, x) : q \in {t \in r : Len(t) = n - 1}, x \in S}

\* String arguments of from(), up to n bytes: always valid UTF-8
Strings(n) == {q \in SeqsUpTo(Byte, n) : Utf8Valid(q)}

\* n bytes of the text 0xC3 0xA9 'a' 0xC3 0xA9 'a' ..., from its k-th byte on
Cycle(n, k) ==
    [i \in 1..n |-> IF (i + k) % 3 = 1 THEN 195
                    ELSE IF (i + k) % 3 = 2 THEN 169 ELSE 97]

\* Vec<u8> arguments of insert_bytes: short ones, and ones about as long as
\* the gap a constructor leaves
Batches ==
    {Cycle(n, k) : n \in 0..MaxBatch, k \in 0..2}
    \cup {Cycle(n, 0) : n \in INITIAL_GAP_SIZE..(INITIAL_GAP_SIZE + MaxExtra)}

----------------------------------------------------------------------------
\* The state machine: one action per public method.  history records every
\* call with its arguments, the state it started from and what it returned;
\* its first entry is the constructor call.

Cur ==
    [buffer |-> buffer, capacity |-> capacity, point |-> point,
     gap_start |-> gap_start, gap_end |-> gap_end, ok |-> ~panicked]

Call(op, index, bytes, start, end, pre, ret) ==
    [op |-> op, index |-> index, bytes |-> bytes, start |-> start, end |-> end,
     pre |-> pre, ret |-> ret]

last == history[Len(history)]

ops == Len(history) - 1

Becomes(s) ==
    /\ buffer' = s.buffer
    /\ capacity' = s.capacity
    /\ point' = s.point
    /\ gap_start' = s.gap_start
    /\ gap_end' = s.gap_end
    /\ panicked' = ~s.ok
    /\ UNCHANGED overflow_checks

Constructed(n) ==
    {Call("new", 0, <<>>, 0, 0, new, <<>>)}
    \cup {Call("from", 0, q, 0, 0, from(q), <<>>) : q \in Strings(n)}

InitWith(n) ==
    /\ overflow_checks \in BOOLEAN
    /\ panicked = FALSE
    /\ \E c \in Constructed(n) :
          /\ buffer = c.pre.buffer
          /\ capacity = c.pre.capacity
          /\ point = c.pre.point
          /\ gap_start = c.pre.gap_start
          /\ gap_end = c.pre.gap_end
          /\ history = <<c>>

\* a call can be made: no earlier call panicked, and the run is not over
Ready(limit) == ~panicked /\ ops < limit

SetPointCall(limit) ==
    /\ Ready(limit)
    /\ \E index \in 0..MaxIndex :
          /\ Becomes(set_point(Cur, index))
          /\ history' = Append(history, Call("set_point", index, <<>>, 0, 0, Cur, <<>>))

InsertCall(limit) ==
    /\ Ready(limit)
    /\ \E byte \in Byte :
          /\ Becomes(insert(Cur, byte))
          /\ history' = Append(history, Call("insert", 0, <<byte>>, 0, 0, Cur, <<>>))

InsertBytesCall(limit) ==
    /\ Ready(limit)
    /\ \E bytes \in Batches :
          /\ Becomes(insert_bytes(Cur, bytes))
          /\ history' = Append(history, Call("insert_bytes", 0, bytes, 0, 0, Cur, <<>>))

RemoveCall(limit) ==
    /\ Ready(limit)
    /\ Becomes(remove(Cur))
    /\ history' = Append(history, Call("remove", 0, <<>>, 0, 0, Cur, <<>>))

RemoveBytesCall(limit) ==
    /\ Ready(limit)
    /\ \E start \in 0..MaxRange, end \in (0..MaxRange) \cup {Len(buffer) + 1} :
          LET r == remove_bytes(Cur, start, end)
          IN /\ Becomes(r.st)
             /\ history' = Append(history,
                                  Call("remove_bytes", 0, <<>>, start, end, Cur, r.ret))

\* Spec: every public method, from new() or from(s)
Init == InitWith(MaxStr)

SetPoint == SetPointCall(MaxOps)

Insert == InsertCall(MaxOps)

InsertBytes == InsertBytesCall(MaxOps)

Remove == RemoveCall(MaxOps)

RemoveBytes == RemoveBytesCall(MaxOps)

Next == SetPoint \/ Insert \/ InsertBytes \/ Remove \/ RemoveBytes

Spec == Init /\ [][Next]_vars

\* SpecEdit: the methods that edit at the point (no remove_bytes), in longer
\* runs
InitEdit == InitWith(MaxStr)

EditSetPoint == SetPointCall(MaxEditOps)

EditInsert == InsertCall(MaxEditOps)

EditInsertBytes == InsertBytesCall(MaxEditOps)

EditRemove == RemoveCall(MaxEditOps)

NextEdit == EditSetPoint \/ EditInsert \/ EditInsertBytes \/ EditRemove

SpecEdit == InitEdit /\ [][NextEdit]_vars

----------------------------------------------------------------------------
\* What the claims speak of

\* the state the last call started from
Pre == last.pre

AllAscii(bs) == \A i \in 1..Len(bs) : bs[i] < 128

\* s has a content: to_string() and len() return, and the point is within it
HasContent(s) == to_string(s).ok /\ len(s).ok /\ ULe(s.point, len(s).v)

\* the free slots of the gap of s
GapRoom(s) == s.gap_end - s.gap_start

\* c with bs put in at index p
Spliced(c, p, bs) == SubSeq(c, 1, p) \o bs \o SubSeq(c, p + 1, Len(c))

\* c without its bytes a..b (half-open)
Cut(c, a, b) == SubSeq(c, 1, a) \o SubSeq(c, b + 1, Len(c))

\* to_string() of s returns e; bytes that are no text need not render
Renders(s, e) == Utf8Valid(e) => to_string(s) = Ok(e)

\* the call left every field as it found it, and panicked
Rejected == panicked /\ Cur = Fail(Pre)

\* the invariants of the data model: gap_start <= gap_end <= buffer.len() and
\* point <= len()
Invariants(s) ==
    /\ s.gap_start >= 0 /\ s.point >= 0
    /\ s.gap_start <= s.gap_end
    /\ s.gap_end <= Len(s.buffer)
    /\ s.point <= Len(s.buffer) - (s.gap_end - s.gap_start)

\* the bytes of s.buffer outside the gap, in order
Live(s) ==
    SubSeq(s.buffer, 1, s.gap_start) \o SubSeq(s.buffer, s.gap_end + 1, Len(s.buffer))

\* the state the i-th call of history left behind
Post(i) == IF i < Len(history) THEN history[i + 1].pre ELSE Cur

----------------------------------------------------------------------------
\* The claims

\* C1: after every call that returns, 0 <= gap_start <= gap_end <= buffer.len(),
\* also after inserting more than the gap held and after remove_bytes.
C1_GapBounds ==
    ~panicked => ULe(gap_start, gap_end) /\ ULe(gap_end, Len(buffer))

\* C2: after every call that returns, 0 <= point <= len().
C2_PointWithinContent ==
    ~panicked /\ len(Cur).ok => ULe(point, len(Cur).v)

\* C3: set_point(index) with index == len() returns and sets point to index.
C3_SetPointAtEnd ==
    last.op = "set_point" /\ len(Pre).ok /\ last.index = len(Pre).v
        => ~panicked /\ point = last.index

\* C4: set_point(index) with index > len() is rejected and leaves buffer, point,
\* gap_start and gap_end as they were.
C4_SetPointBeyondEndRejected ==
    last.op = "set_point" /\ len(Pre).ok /\ ULt(len(Pre).v, last.index)
        => Rejected

\* C5: from a state with content c, point p <= len() and a free gap slot,
\* insert(b) returns, renders c[0..p] ++ [b] ++ c[p..], adds 1 to len() and
\* leaves point at p.
C5_InsertAtPoint ==
    last.op = "insert" /\ HasContent(Pre) /\ GapRoom(Pre) >= 1
        => /\ ~panicked
           /\ point = Pre.point
           /\ len(Cur) = Ok(len(Pre).v + 1)
           /\ Renders(Cur, Spliced(to_string(Pre).v, Pre.point, last.bytes))

\* C6: from a state with content c and point p, insert_bytes(bs) with bs no
\* longer than the gap returns, renders c[0..p] ++ bs ++ c[p..] and adds |bs|
\* to len().
C6_InsertBytesAtPoint ==
    (/\ last.op = "insert_bytes" /\ HasContent(Pre)
     /\ Len(last.bytes) >= 1 /\ Len(last.bytes) <= GapRoom(Pre))
        => /\ ~panicked
           /\ len(Cur) = Ok(len(Pre).v + Len(last.bytes))
           /\ Renders(Cur, Spliced(to_string(Pre).v, Pre.point, last.bytes))

\* C7: an insert or insert_bytes that needs more room than the gap has grows
\* the storage: it returns, capacity() is larger than before, and the content is
\* the old content with the new bytes at point.
C7_InsertGrowsStorage ==
    (/\ last.op \in {"insert", "insert_bytes"} /\ HasContent(Pre)
     /\ Len(last.bytes) > GapRoom(Pre))
        => /\ ~panicked
           /\ capacity > Pre.capacity
           /\ Renders(Cur, Spliced(to_string(Pre).v, Pre.point, last.bytes))

\* C8: from a state with content c and point p, 1 <= p <= len(), remove()
\* returns, renders c[0..p-1] ++ c[p..], takes 1 from len() and sets point to
\* p - 1.
C8_RemoveBeforePoint ==
    last.op = "remove" /\ HasContent(Pre) /\ Pre.point >= 1
        => /\ ~panicked
           /\ point = Pre.point - 1
           /\ len(Cur) = Ok(len(Pre).v - 1)
           /\ Renders(Cur, Cut(to_string(Pre).v, Pre.point - 1, Pre.point))

\* C9: from a state with content c, remove_bytes(a..b) with 0 <= a <= b <= len()
\* returns c[a..b], and to_string() then returns c[0..a] ++ c[b..].
C9_RemoveBytesRange ==
    (/\ last.op = "remove_bytes" /\ HasContent(Pre)
     /\ last.start <= last.end /\ last.end <= len(Pre).v)
        => /\ ~panicked
           /\ last.ret = SubSeq(to_string(Pre).v, last.start + 1, last.end)
           /\ Renders(Cur, Cut(to_string(Pre).v, last.start, last.end))

\* C10: after every call that returns, to_string() returns and len() is the
\* byte length of what it returns.
C10_LenIsRenderedLength ==
    ~panicked /\ AllAscii(buffer)
        => /\ len(Cur).ok
           /\ to_string(Cur).ok
           /\ len(Cur).v = Len(to_string(Cur).v)

\* C11: from(s) renders exactly s, has len() == |s|, and its gap is at the tail
\* right after the content: gap_start == |s|, gap_end == buffer.len().
C11_FromString ==
    Len(history) = 1 /\ last.op = "from"
        => LET s == last.bytes
           IN /\ to_string(Cur) = Ok(s)
              /\ len(Cur) = Ok(Len(s))
              /\ gap_start = Len(s)
              /\ gap_end = Len(buffer)

\* a buffer built by from(s) from a string of several bytes, one of them not ASCII
C11_Witness ==
    /\ Len(history) = 1 /\ last.op = "from"
    /\ Len(last.bytes) >= 2 /\ ~AllAscii(last.bytes)
    /\ to_string(Cur) = Ok(last.bytes)

\* C12: remove() with point == 0 is rejected: it panics, and the rendered
\* content, len() and point are what they were before the call.
C12_RemoveAtStartRejected ==
    last.op = "remove" /\ HasContent(Pre) /\ Pre.point = 0
        => /\ panicked
           /\ point = Pre.point
           /\ len(Cur) = len(Pre)
           /\ to_string(Cur) = to_string(Pre)

\* C13: remove_bytes(a..b) is accepted only when 0 <= a <= b <= len(); with
\* b > len() or a > b it is rejected and leaves buffer, point, gap_start and
\* gap_end as they were.
C13_RemoveBytesOutOfRangeRejected ==
    (/\ last.op = "remove_bytes" /\ len(Pre).ok
     /\ (ULt(len(Pre).v, last.end) \/ last.start > last.end))
        => Rejected

\* C14: a call that panics leaves buffer, point, gap_start and gap_end exactly
\* as they were before it.
C14_NoPartialSuccess ==
    panicked => Cur = Fail(Pre)

\* the i-th call of history is insert(b) from a state with a content and at
\* least room free gap slots, and the next call is set_point(p + 1)
InsertThenAdvance(i, room) ==
    /\ i + 1 <= Len(history)
    /\ history[i].op = "insert"
    /\ HasContent(history[i].pre) /\ GapRoom(history[i].pre) >= room
    /\ history[i + 1].op = "set_point"
    /\ history[i + 1].index = history[i].pre.point + 1

\* C15: from a state with content c, point p <= len() and free gap space,
\* insert(b); set_point(p + 1); remove() succeeds and ends with content c and
\* point p.
C15_InsertRemoveInverse ==
    \A i \in 1..Len(history) :
        InsertThenAdvance(i, 1)
            => /\ Post(i + 1).ok
               /\ (i + 2 <= Len(history) /\ history[i + 2].op = "remove")
                    => /\ Post(i + 2).ok
                       /\ Post(i + 2).point = history[i].pre.point
                       /\ to_string(Post(i + 2)) = to_string(history[i].pre)

\* C16: from a state with point p and at least two free gap slots, insert(b1);
\* set_point(p + 1); insert(b2) renders the same content as insert_bytes([b1, b2])
\* from that state.
C16_BatchEquivalence ==
    \A i \in 1..Len(history) :
        InsertThenAdvance(i, 2)
            => /\ Post(i + 1).ok
               /\ (i + 2 <= Len(history) /\ history[i + 2].op = "insert")
                    => LET batch == insert_bytes(history[i].pre,
                                                 history[i].bytes \o history[i + 2].bytes)
                       IN /\ Post(i + 2).ok
                          /\ batch.ok
                          /\ to_string(Post(i + 2)) = to_string(batch)

\* the i-th and the next call of history are insert(b1); insert(b2), both
\* returned, from a state that satisfies the invariants and has two free gap
\* slots
TwoInserts(i) ==
    /\ i + 1 <= Len(history)
    /\ history[i].op = "insert" /\ history[i + 1].op = "insert"
    /\ Invariants(history[i].pre) /\ GapRoom(history[i].pre) >= 2
    /\ Post(i + 1).ok

\* C17 as claimed: insert(b1) directly followed by insert(b2) overwrites: the
\* content has grown by exactly one byte and the byte at point is b2.
C17_SecondInsertOverwrites ==
    \A i \in 1..Len(history) :
        TwoInserts(i)
            => LET s0 == history[i].pre
                   s2 == Post(i + 1)
               IN /\ len(s2) = Ok(len(s0).v + 1)
                  /\ Live(s2) = Spliced(Live(s0), s0.point, history[i + 1].bytes)

\* C17 amended: insert(b1) directly followed by insert(b2) overwrites nothing:
\* both calls return, point stays p, len() has grown by exactly two, and the
\* bytes outside the gap are c[0..p] ++ [b2, b1] ++ c[p..]: b2 is at index point
\* and b1 right after it.
C17_SecondInsertGoesInFront ==
    LET i == Len(history) - 1
    IN (/\ i >= 1
        /\ history[i].op = "insert" /\ last.op = "insert"
        /\ Invariants(history[i].pre) /\ GapRoom(history[i].pre) >= 2)
           => LET s0 == history[i].pre
              IN /\ ~panicked
                 /\ point = s0.point
                 /\ len(Cur) = Ok(len(s0).v + 2)
                 /\ Live(Cur) = Spliced(Live(s0), s0.point,
                                        last.bytes \o history[i].bytes)

\* two different bytes were inserted one after the other in the middle of a
\* content, with the gap elsewhere
C17_Witness ==
    /\ Len(history) >= 3 /\ ~panicked
    /\ TwoInserts(Len(history) - 1)
    /\ history[Len(history) - 1].bytes # last.bytes
    /\ history[Len(history) - 1].pre.point # history[Len(history) - 1].pre.gap_start

\* the last call was insert_bytes(vec![]), which is prepare_gap() and nothing
\* else, from a state that satisfies the invariants
PreparedGap ==
    last.op = "insert_bytes" /\ last.bytes = <<>> /\ Invariants(Pre)

\* C18 as claimed: after prepare_gap() from a state that satisfies the
\* invariants, gap_start == convert_user_index_to_gap_index(point).
C18_GapStartIsConvertedPoint ==
    ~panicked /\ Invariants(Cur)
        => LET r == prepare_gap(Cur)
           IN r.ok /\ convert_user_index_to_gap_index(r, r.point) = Ok(r.gap_start)

\* C18 amended: after prepare_gap() from a state that satisfies the invariants,
\* gap_start == point (the user index), the invariants still hold, and
\* convert_user_index_to_gap_index(point) is gap_end, the first byte after the
\* gap.
C18_GapStartIsPoint ==
    /\ ~panicked /\ Invariants(Cur)
         => LET r == prepare_gap(Cur)
            IN /\ r.ok
               /\ r.gap_start = r.point
               /\ Invariants(r)
               /\ convert_user_index_to_gap_index(r, r.point) = Ok(r.gap_end)
    /\ PreparedGap
         => /\ ~panicked
            /\ gap_start = point
            /\ Invariants(Cur)
            /\ convert_user_index_to_gap_index(Cur, point) = Ok(gap_end)

\* prepare_gap() has moved a gap that lay after the point back to the point
C18_Witness ==
    /\ PreparedGap /\ ~panicked
    /\ Pre.point < Pre.gap_start
    /\ gap_start = point /\ gap_end > gap_start
    /\ Len(Live(Cur)) > point

\* prepare_gap() has done no more to a than slide its gap, giving b
OnlySlides(a, b) ==
    /\ b.ok
    /\ Live(b) = Live(a)
    /\ b.point = a.point
    /\ GapRoom(b) = GapRoom(a)
    /\ Len(b.buffer) = Len(a.buffer)

\* C19: from a state that satisfies the invariants prepare_gap() leaves the
\* bytes outside the gap, point, the gap length and the storage length as they
\* were, whichever way the gap has to go, and a second call changes nothing.
C19_PrepareGapOnlySlides ==
    /\ ~panicked /\ Invariants(Cur)
         => LET r == prepare_gap(Cur)
            IN OnlySlides(Cur, r) /\ prepare_gap(r) = r
    /\ PreparedGap
         => ~panicked /\ OnlySlides(Pre, Cur) /\ prepare_gap(Cur) = Cur

\* a call has slid the gap back over content, and in the state reached the
\* point lies after the gap, so that prepare_gap() slides it forward over content
C19_Witness ==
    /\ ~panicked /\ Invariants(Cur)
    /\ \E i \in 2..Len(history) :
          /\ history[i].op = "insert_bytes" /\ history[i].bytes = <<>>
          /\ Invariants(history[i].pre)
          /\ history[i].pre.point < history[i].pre.gap_start
          /\ Post(i).buffer # history[i].pre.buffer
    /\ gap_start < point /\ gap_start < gap_end
    /\ prepare_gap(Cur).buffer # buffer

\* p is a physical index of s that is not inside its gap
OutsideGap(s, p) ==
    /\ 0 <= p /\ p <= Len(s.buffer)
    /\ p < s.gap_start \/ p >= s.gap_end

\* C20: in a state that satisfies the invariants, a user index in 0..=len()
\* converted to a physical index and back is itself, and a physical index
\* outside the gap converted to a user index and back is itself.
C20_TranslatorsAreInverses ==
    ~panicked /\ Invariants(Cur)
        => LET s == Cur
               n == len(s).v
           IN /\ \A u \in 0..n :
                   LET g == convert_user_index_to_gap_index(s, u)
                   IN /\ g.ok
                      /\ OutsideGap(s, g.v)
                      /\ convert_gap_index_to_user_index(s, g.v) = Ok(u)
              /\ \A p \in (0..(gap_start - 1)) \cup (gap_end..Len(buffer)) :
                   LET u == convert_gap_index_to_user_index(s, p)
                   IN /\ u.ok
                      /\ 0 <= u.v /\ u.v <= n
                      /\ convert_user_index_to_gap_index(s, u.v) = Ok(p)

\* a gap with room in it and content on both sides, left there by a call
C20_Witness ==
    /\ ~panicked /\ Invariants(Cur) /\ ops >= 1
    /\ 0 < gap_start /\ gap_start < gap_end /\ gap_end < Len(buffer)
    /\ convert_user_index_to_gap_index(Cur, gap_start) = Ok(gap_end)
    /\ convert_gap_index_to_user_index(Cur, Len(buffer)) = len(Cur)

====
